---- MODULE Spec2Model ----
(***************************************************************************)
(* Model of src/bbrun.c (Bumblebee): a list of child PIDs kept by the      *)
(* launch functions, emptied by the SIGCHLD handler, and polled by the     *)
(* stop functions.  The calling thread runs one operation at a time; the   *)
(* handler interrupts it between any two of its steps and runs on its      *)
(* stack, so the caller does not advance while the handler is running.     *)
(* Children exit, stop and continue on their own.                          *)
(*                                                                         *)
(* The list is modelled at pointer level: heap cells hold PID, prev, next. *)
(* free leaves a cell's prev and next as they are and either leaves its    *)
(* PID or overwrites it with allocator bookkeeping, which is no child's     *)
(* PID; malloc may hand a freed cell out again.  Using a freed cell is     *)
(* undefined behaviour: the process crashes, or the access goes to the     *)
(* memory as it is.  A read through NULL faults: the process crashes.      *)
(* malloc is assumed to succeed.  A crashed process takes no further step  *)
(* and its memory is gone.                                                 *)
(*                                                                         *)
(* Spec is the program with one calling thread.  ConcSpec runs bb_run_fork *)
(* in several threads at once; RemoveSpec applies pidlist_remove to the    *)
(* lists pidlist_add can build.                                            *)
(***************************************************************************)
EXTENDS Integers, Sequences, FiniteSets, TLC

MaxPids == 2         \* PIDs fork can hand out; also the number of heap cells
MaxAttempts == 11    \* the attempt counter i of bb_stop_wait stops counting
                     \* here, and sent records the signals up to here
MaxThreads == 2      \* threads calling bb_run_fork at the same time (ConcSpec)
MaxLen == 3          \* longest list pidlist_remove is applied to (RemoveSpec)

NULL == 0
TermLimit == 10      \* "if (i < 10)" in bb_stop_wait
NoRet == -2          \* no value returned yet (or a void function)
JunkPID == 0         \* a freed cell's PID once the allocator has overwritten it
ExecFailCode == 42   \* "exit(42)" in bb_run_exec
NoStatus == -1       \* the child has not terminated
OtherStatus == 0     \* any other way to terminate: the program launched exits
                     \* or is killed by a signal

Pids == 1..MaxPids
Addrs == 1..MaxPids
Ptr == 0..MaxPids
LaunchOps == {"fork", "fork_ld", "fork_wait"}
Ops == LaunchOps \cup {"none", "is_running", "stop", "stop_wait", "stop_all"}

VARIABLES
  handler_set,    \* int handler_set
  pidlist_start,  \* struct pidlist *pidlist_start
  heap,           \* the struct pidlist cells: st, PID, prev, next
  proc,           \* OS state of each child: none, running (alive, possibly
                  \* stopped), zombie (terminated), reaped (collected by wait)
  status,         \* how each child terminated: NoStatus, ExecFailCode,
                  \* OtherStatus
  sigchld,        \* a SIGCHLD is pending (standard signals do not queue)
  sigkilled,      \* children that were sent SIGKILL and have not died yet
  op, pc,         \* operation the caller is in, and its position
  arg,            \* pid_t proc argument of is_running/stop/stop_wait
  ret,            \* pid_t ret of the launch functions (fork's result)
  curr,           \* struct pidlist *curr of pidlist_add / pidlist_find
  i,              \* int i of bb_stop_wait
  all_curr,       \* struct pidlist *curr of bb_stop_all
  all_next,       \* struct pidlist *next of bb_stop_all
  retval,         \* value the last operation returned
  hpc,            \* position of childsig_handler: none/wait/rem
  hret,           \* pid_t ret of childsig_handler (wait's result)
  hcurr,          \* struct pidlist *curr of pidlist_remove
  registered,     \* history: PIDs for which pidlist_add has completed
  launched,       \* history: PIDs returned by bb_run_fork / bb_run_fork_ld
  sent,           \* history: signals sent by the current bb_stop / bb_stop_wait
  snapshot,       \* history: PIDs in the list when bb_stop_all was called
  visited,        \* history: PIDs bb_stop_all has called bb_stop_wait on
  swTracked       \* history: the PID was in the list when bb_stop_wait was called

listvars == <<pidlist_start, heap>>
osvars == <<proc, status, sigchld, sigkilled>>
mainvars == <<op, pc, arg, ret, curr, i, all_curr, all_next, retval>>
hvars == <<hpc, hret, hcurr>>
histvars == <<registered, launched, sent, snapshot, visited, swTracked>>
vars == <<handler_set, listvars, osvars, mainvars, hvars, histvars>>

----------------------------------------------------------------------------
(* The list as data *)

BlankCell == [st |-> "fresh", PID |-> 0, prev |-> NULL, next |-> NULL]

Valid(p) == p # NULL /\ heap[p].st = "alloc"

\* values a read of p->PID / p->next / p->prev can yield: none through NULL
ReadPID(p) == IF p = NULL THEN {} ELSE {heap[p].PID}
ReadNext(p) == IF p = NULL THEN {} ELSE {heap[p].next}
ReadPrev(p) == IF p = NULL THEN {} ELSE {heap[p].prev}

\* outcomes of the test "p->PID == x"
MatchPID(p, x) == {v = x : v \in ReadPID(p)}

\* what free(p) can leave in the cell
FreedCells(c) ==
  {[st |-> "freed", PID |-> v, prev |-> c.prev, next |-> c.next] :
     v \in {c.PID, JunkPID}}

\* cells malloc can return: any freed cell, or the first never-used one
FreshCells == {a \in Addrs : heap[a].st = "fresh"}
MallocChoices ==
  {a \in Addrs : heap[a].st = "freed"} \cup
  {a \in FreshCells : \A b \in FreshCells : a <= b}

\* the cells reached from p by next pointers, in order, up to NULL or a cell
\* already seen
RECURSIVE Walk(_, _)
Walk(p, seen) ==
  IF p = NULL \/ p \in seen THEN <<>>
  ELSE <<p>> \o Walk(heap[p].next, seen \cup {p})

ListCells == Walk(pidlist_start, {})
ListPids == [k \in 1..Len(ListCells) |-> heap[ListCells[k]].PID]
Registry == {ListPids[k] : k \in 1..Len(ListPids)}

\* pidlist_find evaluated at once on the memory as it is
pidlist_find(findpid) == IF findpid \in Registry THEN 1 ELSE 0
bb_is_running(p) == pidlist_find(p)

Alive(p) == proc[p] = "running"
Children == {p \in Pids : proc[p] \in {"running", "zombie"}}
Forked == {p \in Pids : proc[p] # "none"}
NextPid == Cardinality(Forked) + 1

----------------------------------------------------------------------------
Init ==
  /\ handler_set = 0
  /\ pidlist_start = NULL
  /\ heap = [a \in Addrs |-> BlankCell]
  /\ proc = [p \in Pids |-> "none"]
  /\ status = [p \in Pids |-> NoStatus]
  /\ sigchld = FALSE
  /\ sigkilled = {}
  /\ op = "none" /\ pc = "idle"
  /\ arg = 0 /\ ret = 0 /\ curr = NULL /\ i = 0
  /\ all_curr = NULL /\ all_next = NULL
  /\ retval = NoRet
  /\ hpc = "none" /\ hret = 0 /\ hcurr = NULL
  /\ registered = {} /\ launched = {}
  /\ sent = <<>> /\ snapshot = <<>> /\ visited = <<>>
  /\ swTracked = FALSE

\* the caller runs only outside the handler
MainAt(l) == pc = l /\ hpc = "none"

\* the process dies (SIGSEGV, or abort() in free)
Crash ==
  /\ pc' = "crashed"
  /\ UNCHANGED op
  /\ arg' = 0 /\ ret' = 0 /\ curr' = NULL /\ i' = 0
  /\ all_curr' = NULL /\ all_next' = NULL
  /\ retval' = NoRet
  /\ hpc' = "none" /\ hret' = 0 /\ hcurr' = NULL
  /\ pidlist_start' = NULL
  /\ heap' = [a \in Addrs |-> BlankCell]
  /\ sigchld' = FALSE /\ sigkilled' = {}
  /\ UNCHANGED <<proc, status, handler_set, histvars>>

----------------------------------------------------------------------------
(* Children *)

\* the child's execvp fails and bb_run_exec ends it with exit(42); it never
\* returns into the code of the launch function
ExecFails(p) ==
  /\ pc # "crashed"
  /\ proc[p] = "running"
  /\ proc' = [proc EXCEPT ![p] = "zombie"]
  /\ status' = [status EXCEPT ![p] = ExecFailCode]
  /\ sigchld' = TRUE
  /\ sigkilled' = sigkilled \ {p}
  /\ UNCHANGED <<handler_set, listvars, mainvars, hvars, histvars>>

\* the program the child was replaced with terminates
ChildExit(p) ==
  /\ pc # "crashed"
  /\ proc[p] = "running"
  /\ proc' = [proc EXCEPT ![p] = "zombie"]
  /\ status' = [status EXCEPT ![p] = OtherStatus]
  /\ sigchld' = TRUE
  /\ sigkilled' = sigkilled \ {p}
  /\ UNCHANGED <<handler_set, listvars, mainvars, hvars, histvars>>

KillEffect(p) ==
  /\ pc # "crashed"
  /\ p \in sigkilled
  /\ Alive(p)
  /\ proc' = [proc EXCEPT ![p] = "zombie"]
  /\ status' = [status EXCEPT ![p] = OtherStatus]
  /\ sigchld' = TRUE
  /\ sigkilled' = sigkilled \ {p}
  /\ UNCHANGED <<handler_set, listvars, mainvars, hvars, histvars>>

\* a child is stopped or continued by a job-control signal: it stays alive
\* and the parent is sent SIGCHLD (the handler is installed with sa_flags = 0,
\* without SA_NOCLDSTOP)
ChildStopCont(p) ==
  /\ pc # "crashed"
  /\ proc[p] = "running"
  /\ sigchld' = TRUE
  /\ UNCHANGED <<proc, status, sigkilled, handler_set, listvars, mainvars,
                 hvars, histvars>>

----------------------------------------------------------------------------
(* childsig_handler and pidlist_remove *)

\* the SIGCHLD handler is entered; SIGCHLD is blocked while it runs
HandlerEnter ==
  /\ pc # "crashed"
  /\ handler_set = 1
  /\ sigchld
  /\ hpc = "none"
  /\ sigchld' = FALSE
  /\ hpc' = "wait"
  /\ UNCHANGED <<hret, hcurr, proc, status, sigkilled, handler_set,
                 listvars, mainvars, histvars>>

\* wait(0) returns a terminated child; pidlist_remove(ret) begins
HandlerReap(z) ==
  /\ pc # "crashed"
  /\ hpc = "wait"
  /\ proc[z] = "zombie"
  /\ proc' = [proc EXCEPT ![z] = "reaped"]
  /\ hret' = z
  /\ hcurr' = pidlist_start
  /\ hpc' = "rem"
  /\ UNCHANGED <<status, sigchld, sigkilled, handler_set, listvars,
                 mainvars, histvars>>

\* wait(0) fails with ECHILD when there is no child at all; it blocks while
\* there are children and none has terminated
HandlerNoChild ==
  /\ pc # "crashed"
  /\ hpc = "wait"
  /\ Children = {}
  /\ hret' = -1
  /\ hcurr' = pidlist_start
  /\ hpc' = "rem"
  /\ UNCHANGED <<osvars, handler_set, listvars, mainvars, histvars>>

\* curr->next after "if (curr->next) curr->next = curr->prev;"
RemoveNext(nx, pv) == IF nx # NULL THEN pv ELSE nx

\* curr->prev after "if (curr->prev) curr->prev = curr->next;"
RemovePrev(nx, pv) == IF pv # NULL THEN RemoveNext(nx, pv) ELSE pv

\* pidlist_start after the unlinking of a matching cell
RemoveStart(start, nx, pv) ==
  IF pv # NULL THEN start ELSE RemoveNext(nx, pv)

\* the cell after the unlinking of pidlist_remove, before free
Unlinked(c) ==
  [c EXCEPT !.next = RemoveNext(c.next, c.prev),
            !.prev = RemovePrev(c.next, c.prev)]

\* one iteration of the loop of pidlist_remove; on a cell that is freed
\* already, a match frees it a second time
HandlerRemStep ==
  /\ pc # "crashed"
  /\ hpc = "rem"
  /\ hcurr # NULL
  /\ LET c == heap[hcurr] IN
       /\ hcurr' = c.next
       /\ IF TRUE \in MatchPID(hcurr, hret)
            THEN /\ pidlist_start' = RemoveStart(pidlist_start, c.next, c.prev)
                 /\ \E f \in FreedCells(Unlinked(c)) :
                      heap' = [heap EXCEPT ![hcurr] = f]
            ELSE UNCHANGED listvars
  /\ UNCHANGED <<hpc, hret, osvars, handler_set, mainvars, histvars>>

\* the loop is at a cell that is freed already: the process may die there
HandlerRemCrash ==
  /\ pc # "crashed"
  /\ hpc = "rem"
  /\ hcurr # NULL /\ ~Valid(hcurr)
  /\ Crash

\* the loop ends; the handler returns to the interrupted code
HandlerReturn ==
  /\ pc # "crashed"
  /\ hpc = "rem"
  /\ hcurr = NULL
  /\ hpc' = "none"
  /\ hret' = 0
  /\ UNCHANGED <<hcurr, osvars, handler_set, listvars, mainvars, histvars>>

----------------------------------------------------------------------------
(* check_handler, bb_run_fork, bb_run_fork_ld, bb_run_fork_wait *)

\* (mutant) the flag is flipped on every call
CheckHandlerToggles == 1 - handler_set

\* handler_set after check_handler(): sigaction is called, and the flag set,
\* only when the flag is 0
check_handler == IF handler_set = 0 THEN 1 ELSE handler_set

CallLaunch(v) ==
  /\ MainAt("idle")
  /\ handler_set' = check_handler
  /\ op' = v /\ pc' = "fork"
  /\ arg' = 0 /\ ret' = 0 /\ curr' = NULL /\ i' = 0
  /\ all_curr' = NULL /\ all_next' = NULL
  /\ retval' = NoRet
  /\ sent' = <<>> /\ snapshot' = <<>> /\ visited' = <<>>
  /\ swTracked' = FALSE
  /\ UNCHANGED <<registered, launched, listvars, osvars, hvars>>

\* fork succeeds: the child exists from here on
ForkOk ==
  /\ MainAt("fork")
  /\ NextPid <= MaxPids
  /\ proc' = [proc EXCEPT ![NextPid] = "running"]
  /\ ret' = NextPid
  /\ pc' = "add1"
  /\ UNCHANGED <<status, sigchld, sigkilled, op, arg, curr, i, all_curr,
                 all_next, retval, handler_set, listvars, hvars, histvars>>

ForkFails ==
  /\ MainAt("fork")
  /\ ret' = -1
  /\ pc' = "forkfail"
  /\ UNCHANGED <<op, arg, curr, i, all_curr, all_next, retval, osvars,
                 handler_set, listvars, hvars, histvars>>

\* (mutant) the branch falls through to "return ret"
ForkFailRetFallsThrough(v, r) == IF v = "fork_wait" THEN NoRet ELSE r

\* value the "fork failed" branch returns
ForkFailRet(v, r) == IF v = "fork_wait" THEN NoRet ELSE 0

ForkFailReturn ==
  /\ MainAt("forkfail")
  /\ retval' = ForkFailRet(op, ret)
  /\ pc' = "idle"
  /\ ret' = 0
  /\ UNCHANGED <<op, arg, curr, i, all_curr, all_next, osvars, handler_set,
                 listvars, hvars, histvars>>

\* pidlist_add, lines 50-52: malloc, PID, prev; next is not yet written and
\* holds what the cell held before
Add1 ==
  /\ MainAt("add1")
  /\ \E a \in MallocChoices :
       /\ heap' = [heap EXCEPT ![a] = [st |-> "alloc", PID |-> ret,
                                       prev |-> NULL, next |-> heap[a].next]]
       /\ curr' = a
  /\ pc' = "add2"
  /\ UNCHANGED <<pidlist_start, op, arg, ret, i, all_curr, all_next, retval,
                 osvars, handler_set, hvars, histvars>>

\* line 54: curr->next = pidlist_start ? pidlist_start : 0
Add2 ==
  /\ MainAt("add2")
  /\ heap' = [heap EXCEPT ![curr].next = pidlist_start]
  /\ pc' = "add3"
  /\ UNCHANGED <<pidlist_start, op, arg, ret, curr, i, all_curr, all_next,
                 retval, osvars, handler_set, hvars, histvars>>

\* line 55: pidlist_start = curr; then the launch function returns ret, or
\* bb_run_fork_wait starts polling bb_is_running(ret)
Add3 ==
  /\ MainAt("add3")
  /\ pidlist_start' = curr
  /\ registered' = registered \cup {ret}
  /\ curr' = NULL
  /\ IF op = "fork_wait"
       THEN /\ arg' = ret /\ pc' = "find_init"
            /\ UNCHANGED <<retval, launched, ret>>
       ELSE /\ retval' = ret /\ pc' = "idle"
            /\ launched' = launched \cup {ret}
            /\ ret' = 0
            /\ UNCHANGED arg
  /\ UNCHANGED <<heap, op, i, all_curr, all_next, osvars, handler_set, hvars,
                 sent, snapshot, visited, swTracked>>

----------------------------------------------------------------------------
(* pidlist_find, step by step, and what its callers do with the result *)

CallFind(o, p) ==
  /\ MainAt("idle")
  /\ o \in {"is_running", "stop", "stop_wait"}
  /\ op' = o /\ arg' = p /\ pc' = "find_init"
  /\ ret' = 0 /\ curr' = NULL /\ i' = 0
  /\ all_curr' = NULL /\ all_next' = NULL
  /\ retval' = NoRet
  /\ sent' = <<>> /\ snapshot' = <<>> /\ visited' = <<>>
  /\ swTracked' = (p \in Registry)
  /\ UNCHANGED <<registered, launched, handler_set, listvars, osvars, hvars>>

\* "for (curr = pidlist_start; ..."; bb_stop_wait and bb_run_fork_wait
\* sleep in usleep before they come here again
FindInit ==
  /\ MainAt("find_init")
  /\ curr' = pidlist_start
  /\ pc' = "find"
  /\ UNCHANGED <<op, arg, ret, i, all_curr, all_next, retval, osvars,
                 handler_set, listvars, hvars, histvars>>

\* (mutant) the comment's reading, "the first 10 attempts, use SIGTERM"
SigForTenTerms(n) == IF n <= TermLimit THEN "SIGTERM" ELSE "SIGKILL"

\* signal the n-th attempt of bb_stop_wait sends
SigFor(n) == IF n < TermLimit THEN "SIGTERM" ELSE "SIGKILL"

\* (mutant) "if" for "while": the loop is left after the first attempt
SwDoneAfterOne(r) == r = 0 \/ i > 0

\* (mutant) "do ... while": one attempt is made before the first test
SwDoneDoWhile(r) == r = 0 /\ i > 0

\* bb_stop_wait leaves its loop when bb_is_running returns r
SwDone(r) == r = 0

\* kill(p, sig): SIGKILL ends a live process, some time later; what SIGTERM
\* does is up to the child, which may exit at any time anyway
KillSet(p, sig) ==
  IF sig = "SIGKILL" /\ p \in Pids /\ Alive(p)
    THEN sigkilled \cup {p} ELSE sigkilled

\* pidlist_find returned r to its caller
Found(r) ==
  /\ curr' = NULL
  /\ \/ /\ op = "is_running"
        /\ retval' = r /\ pc' = "idle"
        /\ UNCHANGED <<i, sent, sigkilled>>
     \/ /\ op = "stop"
        /\ sent' = IF r = 1 THEN <<"SIGTERM">> ELSE sent
        /\ pc' = "idle"
        /\ UNCHANGED <<retval, i, sigkilled>>
     \/ /\ op \in {"stop_wait", "stop_all"}
        /\ SwDone(r)
        /\ pc' = "sw_ret"
        /\ UNCHANGED <<retval, i, sent, sigkilled>>
     \/ /\ op \in {"stop_wait", "stop_all"}
        /\ ~SwDone(r)
        /\ i' = IF i < MaxAttempts THEN i + 1 ELSE i
        /\ sent' = IF i < MaxAttempts THEN Append(sent, SigFor(i + 1))
                                      ELSE sent
        /\ sigkilled' = KillSet(arg, SigFor(i + 1))
        /\ pc' = "find_init"
        /\ UNCHANGED retval
     \/ /\ op = "fork_wait"
        /\ pc' = IF r = 1 THEN "find_init" ELSE "idle"
        /\ UNCHANGED <<retval, i, sent, sigkilled>>
  /\ UNCHANGED <<op, arg, ret, all_curr, all_next, proc, status, sigchld,
                 handler_set, listvars, hvars, registered, launched,
                 snapshot, visited, swTracked>>

\* curr is NULL: the loop ends, return 0
FindMiss ==
  /\ MainAt("find")
  /\ curr = NULL
  /\ Found(0)

\* curr->PID == findpid: return 1
FindHit ==
  /\ MainAt("find")
  /\ curr # NULL
  /\ TRUE \in MatchPID(curr, arg)
  /\ Found(1)

\* curr = curr->next
FindNext ==
  /\ MainAt("find")
  /\ curr # NULL
  /\ FALSE \in MatchPID(curr, arg)
  /\ \E n \in ReadNext(curr) : curr' = n
  /\ UNCHANGED <<op, pc, arg, ret, i, all_curr, all_next, retval, osvars,
                 handler_set, listvars, hvars, histvars>>

\* curr points to a cell the handler has freed: the read may fault
FindCrash ==
  /\ MainAt("find")
  /\ curr # NULL /\ ~Valid(curr)
  /\ Crash

\* (mutant) bb_stop_wait drops the list when it returns
SwReturnUnlinks ==
  /\ MainAt("sw_ret")
  /\ pc' = IF op = "stop_all" THEN "all_test" ELSE "idle"
  /\ arg' = 0 /\ i' = 0
  /\ sent' = <<>>
  /\ swTracked' = FALSE
  /\ pidlist_start' = NULL
  /\ UNCHANGED <<heap, op, ret, curr, all_curr, all_next, retval, osvars,
                 handler_set, hvars, registered, launched, snapshot, visited>>

\* bb_stop_wait returns, to its caller or to the loop of bb_stop_all
SwReturn ==
  /\ MainAt("sw_ret")
  /\ pc' = IF op = "stop_all" THEN "all_test" ELSE "idle"
  /\ arg' = 0 /\ i' = 0
  /\ sent' = <<>>
  /\ swTracked' = FALSE
  /\ UNCHANGED <<op, ret, curr, all_curr, all_next, retval, osvars,
                 handler_set, listvars, hvars, registered, launched,
                 snapshot, visited>>

----------------------------------------------------------------------------
(* bb_stop_all *)

\* "struct pidlist *next = pidlist_start;"
CallStopAll ==
  /\ MainAt("idle")
  /\ op' = "stop_all" /\ pc' = "all_test"
  /\ all_next' = pidlist_start
  /\ all_curr' = NULL
  /\ arg' = 0 /\ ret' = 0 /\ curr' = NULL /\ i' = 0
  /\ retval' = NoRet
  /\ sent' = <<>> /\ visited' = <<>>
  /\ snapshot' = ListPids
  /\ swTracked' = FALSE
  /\ UNCHANGED <<registered, launched, handler_set, listvars, osvars, hvars>>

\* (mutant) the test inverted, "while (!next)"
AllLoopDoneInverted(nxt) == nxt # NULL

\* "while (next)" is over
AllLoopDone(nxt) == nxt = NULL

AllReturn ==
  /\ MainAt("all_test")
  /\ AllLoopDone(all_next)
  /\ pc' = "idle"
  /\ all_curr' = NULL
  /\ UNCHANGED <<op, arg, i, ret, curr, all_next, retval, osvars,
                 handler_set, listvars, hvars, histvars>>

\* "curr = next; next = pidlist_start->next;"
AllStep ==
  /\ MainAt("all_test")
  /\ ~AllLoopDone(all_next)
  /\ all_curr' = all_next
  /\ \E n \in ReadNext(pidlist_start) : all_next' = n
  /\ pc' = "all_call"
  /\ UNCHANGED <<op, arg, ret, curr, i, retval, osvars, handler_set,
                 listvars, hvars, histvars>>

\* pidlist_start is NULL (or dangling) there: the read may fault
AllStepCrash ==
  /\ MainAt("all_test")
  /\ ~AllLoopDone(all_next)
  /\ ~Valid(pidlist_start)
  /\ Crash

\* "bb_stop_wait(curr->PID);"
AllCall ==
  /\ MainAt("all_call")
  /\ \E p \in ReadPID(all_curr) :
       /\ arg' = p
       /\ visited' = Append(visited, p)
       /\ swTracked' = (p \in Registry)
  /\ i' = 0
  /\ sent' = <<>>
  /\ pc' = "find_init"
  /\ UNCHANGED <<op, ret, curr, all_curr, all_next, retval, osvars,
                 handler_set, listvars, hvars, registered, launched, snapshot>>

AllCallCrash ==
  /\ MainAt("all_call")
  /\ ~Valid(all_curr)
  /\ Crash

----------------------------------------------------------------------------
Next ==
  \/ \E p \in Pids : ExecFails(p)
  \/ \E p \in Pids : ChildExit(p)
  \/ \E p \in Pids : KillEffect(p)
  \/ \E p \in Pids : ChildStopCont(p)
  \/ HandlerEnter
  \/ \E z \in Pids : HandlerReap(z)
  \/ HandlerNoChild
  \/ HandlerRemStep
  \/ HandlerRemCrash
  \/ HandlerReturn
  \/ \E v \in LaunchOps : CallLaunch(v)
  \/ ForkOk
  \/ ForkFails
  \/ ForkFailReturn
  \/ Add1
  \/ Add2
  \/ Add3
  \/ \E o \in {"is_running", "stop", "stop_wait"}, p \in Pids : CallFind(o, p)
  \/ FindInit
  \/ FindMiss
  \/ FindHit
  \/ FindNext
  \/ FindCrash
  \/ SwReturn
  \/ CallStopAll
  \/ AllReturn
  \/ AllStep
  \/ AllStepCrash
  \/ AllCall
  \/ AllCallCrash

Spec == Init /\ [][Next]_vars

\* steps of the calling thread inside an operation: once called, the
\* operation keeps running
MainStep ==
  \/ ForkOk \/ ForkFails \/ ForkFailReturn \/ Add1 \/ Add2 \/ Add3
  \/ FindInit \/ FindMiss \/ FindHit \/ FindNext \/ FindCrash
  \/ SwReturn \/ AllReturn \/ AllStep \/ AllStepCrash \/ AllCall
  \/ AllCallCrash

\* steps of the handler: a pending SIGCHLD is delivered, and the handler
\* runs on as far as wait(0) lets it
HandlerStep ==
  \/ HandlerEnter \/ (\E z \in Pids : HandlerReap(z)) \/ HandlerNoChild
  \/ HandlerRemStep \/ HandlerRemCrash \/ HandlerReturn

\* the caller and the handler keep running, and a process sent SIGKILL dies
FairSpec ==
  /\ Spec
  /\ WF_vars(MainStep)
  /\ WF_vars(HandlerStep)
  /\ \A p \in Pids : WF_vars(KillEffect(p))

----------------------------------------------------------------------------
(* Several threads in bb_run_fork at once.  Under ConcSpec pc, ret and curr *)
(* hold one value per thread; each action below is one read or write of    *)
(* bb_run_fork and pidlist_add, which take no lock.  No child exits here,   *)
(* so the handler never runs.                                               *)

Threads == 1..MaxThreads

\* what ConcSpec leaves alone
concidle == <<status, sigchld, sigkilled, op, arg, i, all_curr, all_next,
              retval, hvars, sent, snapshot, visited, swTracked>>

ConcInit ==
  /\ handler_set = 0
  /\ pidlist_start = NULL
  /\ heap = [a \in Addrs |-> BlankCell]
  /\ proc = [p \in Pids |-> "none"]
  /\ status = [p \in Pids |-> NoStatus]
  /\ sigchld = FALSE
  /\ sigkilled = {}
  /\ op = "fork"
  /\ pc = [t \in Threads |-> "idle"]
  /\ ret = [t \in Threads |-> 0]
  /\ curr = [t \in Threads |-> NULL]
  /\ arg = 0 /\ i = 0
  /\ all_curr = NULL /\ all_next = NULL
  /\ retval = NoRet
  /\ hpc = "none" /\ hret = 0 /\ hcurr = NULL
  /\ registered = {} /\ launched = {}
  /\ sent = <<>> /\ snapshot = <<>> /\ visited = <<>>
  /\ swTracked = FALSE

\* launches under way that have not forked yet
BeforeFork == {t \in Threads : pc[t] \in {"install", "fork"}}

\* thread t calls bb_run_fork: check_handler() tests "handler_set == 0"
ThreadCall(t) ==
  /\ pc[t] = "idle"
  /\ Cardinality(Forked) + Cardinality(BeforeFork) < MaxPids
  /\ pc' = [pc EXCEPT ![t] = IF handler_set = 0 THEN "install" ELSE "fork"]
  /\ UNCHANGED <<ret, curr, proc, handler_set, listvars, registered, launched,
                 concidle>>

\* lines 104-109: sigaction, handler_set = 1
ThreadInstall(t) ==
  /\ pc[t] = "install"
  /\ handler_set' = 1
  /\ pc' = [pc EXCEPT ![t] = "fork"]
  /\ UNCHANGED <<ret, curr, proc, listvars, registered, launched, concidle>>

\* "pid_t ret = fork();" succeeds
ThreadFork(t) ==
  /\ pc[t] = "fork"
  /\ proc' = [proc EXCEPT ![NextPid] = "running"]
  /\ ret' = [ret EXCEPT ![t] = NextPid]
  /\ pc' = [pc EXCEPT ![t] = "malloc"]
  /\ UNCHANGED <<curr, handler_set, listvars, registered, launched, concidle>>

\* pidlist_add, line 50: malloc (thread-safe); the cell holds what it held
ThreadMalloc(t) ==
  /\ pc[t] = "malloc"
  /\ \E a \in MallocChoices :
       /\ heap' = [heap EXCEPT ![a].st = "alloc"]
       /\ curr' = [curr EXCEPT ![t] = a]
  /\ pc' = [pc EXCEPT ![t] = "add1"]
  /\ UNCHANGED <<ret, pidlist_start, proc, handler_set, registered, launched,
                 concidle>>

\* lines 51-52: curr->PID = newpid; curr->prev = 0
ThreadAdd1(t) ==
  /\ pc[t] = "add1"
  /\ heap' = [heap EXCEPT ![curr[t]].PID = ret[t], ![curr[t]].prev = NULL]
  /\ pc' = [pc EXCEPT ![t] = "add2"]
  /\ UNCHANGED <<ret, curr, pidlist_start, proc, handler_set, registered,
                 launched, concidle>>

\* line 54, the test "pidlist_start ?": on NULL, curr->next = 0
ThreadAdd2Test(t) ==
  /\ pc[t] = "add2"
  /\ IF pidlist_start = NULL
       THEN /\ heap' = [heap EXCEPT ![curr[t]].next = NULL]
            /\ pc' = [pc EXCEPT ![t] = "add3"]
       ELSE /\ pc' = [pc EXCEPT ![t] = "add2r"]
            /\ UNCHANGED heap
  /\ UNCHANGED <<ret, curr, pidlist_start, proc, handler_set, registered,
                 launched, concidle>>

\* line 54, the second read: curr->next = pidlist_start
ThreadAdd2Read(t) ==
  /\ pc[t] = "add2r"
  /\ heap' = [heap EXCEPT ![curr[t]].next = pidlist_start]
  /\ pc' = [pc EXCEPT ![t] = "add3"]
  /\ UNCHANGED <<ret, curr, pidlist_start, proc, handler_set, registered,
                 launched, concidle>>

\* line 55: pidlist_start = curr; bb_run_fork returns ret
ThreadAdd3(t) ==
  /\ pc[t] = "add3"
  /\ pidlist_start' = curr[t]
  /\ registered' = registered \cup {ret[t]}
  /\ launched' = launched \cup {ret[t]}
  /\ pc' = [pc EXCEPT ![t] = "idle"]
  /\ ret' = [ret EXCEPT ![t] = 0]
  /\ curr' = [curr EXCEPT ![t] = NULL]
  /\ UNCHANGED <<heap, proc, handler_set, concidle>>

ConcNext ==
  \E t \in Threads :
    \/ ThreadCall(t)
    \/ ThreadInstall(t)
    \/ ThreadFork(t)
    \/ ThreadMalloc(t)
    \/ ThreadAdd1(t)
    \/ ThreadAdd2Test(t)
    \/ ThreadAdd2Read(t)
    \/ ThreadAdd3(t)

ConcSpec == ConcInit /\ [][ConcNext]_vars

----------------------------------------------------------------------------
(* pidlist_remove on its own: RemoveSpec starts from any list pidlist_add   *)
(* can have built (distinct cells, distinct PIDs, every prev 0) and applies *)
(* pidlist_remove to it, uninterrupted, with the steps of the handler.      *)

RemAddrs == 1..MaxLen
RemPids == 1..MaxLen

\* the one-to-one sequences of length n over S
Arrangements(S, n) ==
  {f \in [1..n -> S] : \A j, k \in 1..n : f[j] = f[k] => j = k}

\* the heap holding the PIDs pids, in this order, in the cells cells
BuiltHeap(cells, pids) ==
  [a \in RemAddrs |->
     IF \E k \in 1..Len(cells) : cells[k] = a
       THEN LET k == CHOOSE j \in 1..Len(cells) : cells[j] = a
            IN [st |-> "alloc", PID |-> pids[k], prev |-> NULL,
                next |-> IF k < Len(cells) THEN cells[k + 1] ELSE NULL]
       ELSE BlankCell]

RemoveInit ==
  /\ \E n \in 0..MaxLen :
       \E cells \in Arrangements(RemAddrs, n), pids \in Arrangements(RemPids, n) :
         /\ heap = BuiltHeap(cells, pids)
         /\ pidlist_start = IF n = 0 THEN NULL ELSE cells[1]
  /\ handler_set = 1
  /\ proc = [p \in Pids |-> "none"]
  /\ status = [p \in Pids |-> NoStatus]
  /\ sigchld = FALSE
  /\ sigkilled = {}
  /\ op = "none" /\ pc = "idle"
  /\ arg = 0 /\ ret = 0 /\ curr = NULL /\ i = 0
  /\ all_curr = NULL /\ all_next = NULL
  /\ retval = NoRet
  /\ hpc = "none" /\ hret = 0 /\ hcurr = NULL
  /\ registered = {} /\ launched = {}
  /\ sent = <<>> /\ snapshot = <<>> /\ visited = <<>>
  /\ swTracked = FALSE

\* pidlist_remove(rempid) is called: "curr = pidlist_start"; arg and
\* snapshot keep the argument and the list as it was
RemoveCall(rempid) ==
  /\ hpc = "none"
  /\ op' = "remove"
  /\ arg' = rempid
  /\ snapshot' = ListPids
  /\ hret' = rempid
  /\ hcurr' = pidlist_start
  /\ hpc' = "rem"
  /\ UNCHANGED <<pc, ret, curr, i, all_curr, all_next, retval, osvars,
                 handler_set, listvars, registered, launched, sent, visited,
                 swTracked>>

RemoveStep ==
  \/ \E rempid \in RemPids : RemoveCall(rempid)
  \/ HandlerRemStep
  \/ HandlerReturn

RemoveSpec == RemoveInit /\ [][RemoveStep]_vars

----------------------------------------------------------------------------
TypeOK ==
  /\ handler_set \in {0, 1}
  /\ pidlist_start \in Ptr
  /\ \A a \in Addrs : heap[a].st \in {"fresh", "alloc", "freed"}
  /\ pc \in {"idle", "fork", "forkfail", "add1", "add2", "add3", "find_init",
             "find", "sw_ret", "all_test", "all_call", "crashed"}
  /\ op \in Ops
  /\ i \in 0..MaxAttempts
  /\ hpc \in {"none", "wait", "rem"}
  /\ \A p \in Pids : status[p] \in {NoStatus, OtherStatus, ExecFailCode}
----------------------------------------------------------------------------
(* Properties *)

Running == pc # "crashed"
\* no handler run is under way: what wait(0) collected has been removed
Settled == Running /\ hpc = "none"
InStopWait == op \in {"stop_wait", "stop_all"} /\ pc \in {"find_init", "find"}

\* C1: a PID is in the registry iff a launch registered it and the reaper
\* has not collected its exit (stated of the states in which no handler run
\* is under way).
C1_RegistryIsLaunchedUnreaped ==
  Settled =>
    \A p \in Pids : (p \in Registry) <=> (p \in registered /\ proc[p] # "reaped")

\* C2: for every PID a launch returned, is_running(pid) is true for as long
\* as the process has not exited, whatever the other children do.
C2_RunningUntilExit ==
  Running => \A p \in launched : Alive(p) => bb_is_running(p) = 1

\* C3: once the exit of a launched process has been collected and the
\* handler run that collected it is over, is_running(pid) is false: the
\* entry is gone, and none is left behind.
C3_ExitedIsRemoved ==
  Settled =>
    \A p \in Pids : (p \in registered /\ proc[p] = "reaped") => bb_is_running(p) = 0

\* C4: when stop_wait(pid) returns for a PID that was tracked when it was
\* called, the process has terminated.
C4_StopWaitReturnsAfterDeath ==
  (pc = "sw_ret" /\ swTracked) => ~Alive(arg)

\* C5: in the state in which stop_wait(pid) returns, the registry does not
\* contain pid.
C5_StopWaitReturnsUntracked ==
  pc = "sw_ret" => arg \notin Registry

\* C5 witness: stop_wait returns for a PID that was tracked when it was
\* called, after it signalled it at least once.
C5_Witness == pc = "sw_ret" /\ swTracked /\ i >= 1 /\ arg \in Pids

\* C6: stop_wait(pid) always eventually returns (granted even that the
\* process does not crash and that the handler is not sitting in wait(0)),
\* under the fairness of FairSpec.
C6_StopWaitReturns ==
  InStopWait ~> (pc = "sw_ret" \/ pc = "crashed" \/ hpc = "wait")

C9_StopAllVisitsEach ==
  (op = "stop_all" /\ pc \in {"idle", "crashed"}) => visited = snapshot

\* C10: after a failed fork, the launch's own steps leave the registry as it
\* is, launch and launch_with_library_path return 0, which is no registered
\* PID, and launch_and_wait returns without polling.
C10_ForkFailureStep ==
  /\ (pc = "fork" /\ pc' = "forkfail") => (ret' = -1 /\ UNCHANGED listvars)
  /\ (pc = "forkfail" /\ hpc = "none" /\ pc' # pc) =>
       /\ pc' = "idle"
       /\ UNCHANGED <<listvars, registered, launched>>
       /\ op \in {"fork", "fork_ld"} => (retval' = 0 /\ retval' \notin registered')
       /\ op = "fork_wait" => retval' = NoRet

C10_ForkFailure == [][C10_ForkFailureStep]_vars

\* C10 witness: a launch has returned 0 while another child is tracked.
C10_Witness ==
  /\ pc = "idle" /\ op \in {"fork", "fork_ld"} /\ retval = 0
  /\ \E p \in registered : p \in Registry /\ Alive(p)

\* C11: a child whose execvp failed ends with exit code 42, and once the
\* reaper has collected that exit and the launch has registered the PID, the
\* registry holds no entry for it, whatever the order of the child's exit,
\* the handler run and pidlist_add.
C11_ExecFailureLeavesNoEntry ==
  Settled =>
    \A p \in Pids :
      (status[p] = ExecFailCode /\ proc[p] = "reaped" /\ p \in registered)
        => p \notin Registry

\* C12: when the concurrent launches have all returned, the registry holds
\* exactly the launched PIDs, each once.
C12_ConcurrentLaunches ==
  (\A t \in Threads : pc[t] = "idle") =>
    /\ Registry = launched
    /\ Len(ListPids) = Cardinality(launched)

\* C13: the reaper collects every terminated child even when notifications
\* coalesce: when no handler run is under way and no SIGCHLD is pending, no
\* terminated child is left uncollected.
C13_NoZombieLeft ==
  (Settled /\ handler_set = 1 /\ ~sigchld) =>
    \A p \in Pids : proc[p] # "zombie"

\* C14: launch_and_wait does not return, after a successful fork, while the
\* child it launched is alive.
C14_ForkWaitBlocks ==
  (op = "fork_wait" /\ pc = "idle" /\ arg \in Pids) => ~Alive(arg)

StopOps == {"is_running", "stop", "stop_wait", "stop_all"}

\* the PIDs held by the nodes of the list that have not been freed
LiveRegistry ==
  {heap[ListCells[k]].PID : k \in {j \in 1..Len(ListCells) : Valid(ListCells[j])}}

\* C15: the registry (the PIDs in the nodes of the list that are not freed)
\* gains entries only in pidlist_add, called by a launch, and loses entries
\* only in the handler's pidlist_remove; a step of is_running, stop,
\* stop_wait or stop_all itself leaves the list as it is (steps in which the
\* process dies aside).
C15_FrameStep ==
  pc' # "crashed" =>
    /\ ~(LiveRegistry' \subseteq LiveRegistry) =>
         (pc \in {"add1", "add2", "add3"} /\ op \in LaunchOps /\ hpc = "none")
    /\ ~(LiveRegistry \subseteq LiveRegistry') => hpc = "rem"
    /\ (op \in StopOps /\ pc # "idle" /\ hpc = "none") => UNCHANGED listvars
C17_RemoveRemovesOnlyThat ==
  (op = "remove" /\ hpc = "none") =>
    \A q \in RemPids :
      (q \in Registry) <=>
        (q # arg /\ \E k \in 1..Len(snapshot) : snapshot[k] = q)

\* C18: no step reads or writes through a null pointer or through a node
\* that has been freed, and no freed node is reachable from pidlist_start.
C18_MemorySafe ==
  Running =>
    /\ (pc = "find" /\ curr # NULL) => Valid(curr)
    /\ (pc \in {"add2", "add3"}) => Valid(curr)
    /\ (pc = "all_test" /\ ~AllLoopDone(all_next)) => Valid(pidlist_start)
    /\ (pc = "all_call") => Valid(all_curr)
    /\ (hpc = "rem" /\ hcurr # NULL) => Valid(hcurr)
    /\ \A k \in 1..Len(ListCells) : Valid(ListCells[k])

\* C19: the handler is installed at most once (handler_set changes only from
\* 0 to 1, in the check at the start of a launch, and never back), and it is
\* installed before any fork: no child exists while it is not installed.
C19_InstallStep ==
  handler_set' # handler_set =>
    (handler_set = 0 /\ handler_set' = 1 /\ pc = "idle" /\ pc' = "fork")
C19_HandlerInstalledOnce ==
  /\ []((pc = "fork" \/ Forked # {}) => handler_set = 1)
  /\ [][C19_InstallStep]_vars

\* C19 witness: a second child has been forked, by a launch that found the
\* handler installed.
C19_Witness == handler_set = 1 /\ Cardinality(Forked) >= 2

\* C20: the handler never waits for a running child: whenever it is at
\* wait(0), wait can return at once (with a terminated child, or with an
\* error when there is none).
C20_ReaperDoesNotBlock ==
  (Running /\ hpc = "wait") =>
    ENABLED (HandlerNoChild \/ \E z \in Pids : HandlerReap(z))
====
